---- MODULE Spec2Model ----
(***************************************************************************)
(* Model of the asynchronous port scanner (scanner.py): scan_ports fans    *)
(* out one scan_port coroutine per element of the port list, every         *)
(* scan_port runs under the module-level semaphore, and the open-ports     *)
(* mapping is built from the gathered results.                             *)
(*                                                                         *)
(* asyncio runs the coroutines on one thread: the code between two awaits  *)
(* is one atomic step, so every action below is one such step of one       *)
(* coroutine (or one event of the environment: time passing, the target    *)
(* answering, a cancellation request reaching a task suspended in the      *)
(* banner read, which is the one suspension point where the code handles   *)
(* cancellation).                                                          *)
(***************************************************************************)
EXTENDS Integers, Sequences, FiniteSets, Bags, TLC

\* ---------------------------------------------------------------- bounds
\* Longest port list handed to scan_ports.
MaxPorts == 3
\* Most port tokens on a command line.
MaxTokens == 3
\* Capacity of the semaphore.  The source sets 100; the model scales it down
\* so that lists longer than the capacity are explored.
MAX_CONCURRENT_SCANS == 2

\* ------------------------------------------------------ program constants
\* wait_for(connection, timeout=1): the connect timeout, in time units.
ConnectTimeout == 1
\* reader.read(1024): the most bytes one read returns.
ReadLimit == 1024

\* ------------------------------------------------------------ environment
\* Port numbers the port list is drawn from (duplicates are permitted).
PortUniverse == {80, 81}

\* What the target does on a port, fixed for the whole scan:
\*   refuse    the connection is actively rejected (ConnectionRefusedError)
\*   error     the attempt fails in another way (OSError: unreachable, DNS)
\*   filtered  nothing answers within the connect timeout
\*   silent    accepts, then never sends and never closes
\*   text      accepts, then sends decodable bytes or closes at once
\*   garbage   accepts, then sends bytes that are not valid UTF-8
TargetKinds == {"refuse", "error", "filtered", "silent", "text", "garbage"}

Accepting == {"silent", "text", "garbage"}

\* What a service may send before the read returns.  Bytes: 32 is a space,
\* 10 a line feed, 97 a letter, 255 never occurs in valid UTF-8.  The empty
\* payload is a service that closes the connection without sending.
TextPayloads == {<< >>, <<32, 97, 10>>}
GarbagePayloads == {<<97, 255>>}

\* ------------------------------------------------------------------ state
VARIABLES
    tokens,      \* the port arguments of the command line
    args,        \* what parse_arguments made of them (args.ports)
    pcM,         \* where main is: "parse", "scan" (arguments parsed),
                 \* "scanning" (inside asyncio.run), "exit"
    ports,       \* ports_to_scan, the argument of scan_ports; when two
                 \* calls of scan_ports run in one process, the list of
                 \* the first call followed by the list of the second
    nFirst,      \* how many elements of ports are the first call's
    target,      \* the target's behaviour on each port of the list
    payloads,    \* what a "text" service may have sent when a read returns
    pcS,         \* where scan_ports is: "idle" (not called yet), "start",
                 \* "gather", "returned"
    pcS2,        \* where the second call of scan_ports is ("none": there
                 \* is no second call)
    pc,          \* where each scan_port invocation is
    timer,       \* time units elapsed in each invocation's wait_for
    semValue,    \* semaphore._value: the permits available
    permit,      \* permits each invocation holds
    released,    \* how many times each invocation released a permit
    attempts,    \* how many connection attempts each invocation made
    conn,        \* each invocation's connection
    arrived,     \* the bytes that had arrived when its read returned
    info,        \* service_info / the second element of the returned pair
    status,      \* which return of scan_port each invocation took
    slept,       \* how many times each invocation ran asyncio.sleep(0.1)
    cancelled,   \* the invocation's banner read was cancelled
    log,         \* the log entries written, as a bag
    results,     \* what asyncio.gather returned
    open_ports,  \* the mapping scan_ports returns
    results2,    \* results and open_ports of the second call
    open_ports2

\* The variables of main, of the environment, and of the second call.
mainVars == <<tokens, args, pcM>>
envVars == <<ports, nFirst, target, payloads>>
secondVars == <<pcS2, results2, open_ports2>>

vars == <<mainVars, envVars, secondVars, pcS, pc, timer, semValue, permit,
          released, attempts, conn, arrived, info, status, slept, cancelled,
          log, results, open_ports>>

\* The scan_port invocations: one for each element of a port list.
Probes == 1..Len(ports)

\* Those of the first call of scan_ports, and those of the second.
Probes1 == 1..nFirst
Probes2 == (nFirst + 1)..Len(ports)

\* The byte strings a read on a port of this kind may return.
PayloadsOf(kind) ==
    IF kind = "text" THEN payloads
    ELSE IF kind = "garbage" THEN GarbagePayloads
    ELSE {}

\* The value None, and a text value, of service_info.
None == [isNone |-> TRUE, text |-> << >>]
Text(t) == [isNone |-> FALSE, text |-> t]

\* The empty dict.
EmptyDict == [p \in {} |-> << >>]

\* --------------------------------------------------------- pure functions
Min(a, b) == IF a <= b THEN a ELSE b

\* A read that goes on to end-of-stream: every byte the service sent.
ReadAll(payload) == payload

\* reader.read(1024): one read, at most ReadLimit of the bytes that arrived.
Read(payload) == SubSeq(payload, 1, Min(Len(payload), ReadLimit))

\* bytes.decode() succeeds on these bytes (every byte is ASCII; a byte of
\* 128 or more is only valid inside a multi-byte sequence, which the
\* payloads of the model never form).
Decodable(bytes) == \A k \in 1..Len(bytes) : bytes[k] < 128

\* bytes.decode(): each ASCII byte is the character of the same code point.
Decode(bytes) == [k \in 1..Len(bytes) |-> bytes[k]]

\* The characters str.strip() removes.
Whitespace == {9, 10, 11, 12, 13, 28, 29, 30, 31, 32}

RECURSIVE LStrip(_)
LStrip(t) ==
    IF t # << >> /\ Head(t) \in Whitespace THEN LStrip(Tail(t)) ELSE t

RECURSIVE RStrip(_)
RStrip(t) ==
    IF t # << >> /\ t[Len(t)] \in Whitespace
    THEN RStrip(SubSeq(t, 1, Len(t) - 1))
    ELSE t

\* str.strip()
Strip(t) == RStrip(LStrip(t))

\* The banner fetch_service_banner returns for the bytes of its read.
Banner(bytes) == Strip(Decode(bytes))

\* The dict built without the "if info is not None" filter: every port of
\* the results is a key, with the text of its last pair.
OpenPortsOfUnfiltered(res) ==
    [p \in {res[i][1] : i \in 1..Len(res)} |->
        res[CHOOSE i \in 1..Len(res) :
                /\ res[i][1] = p
                /\ \A j \in (i + 1)..Len(res) : res[j][1] # p][2].text]

\* A dict that keeps the first value it gets for a key (setdefault): the
\* first pair with a banner wins over the later ones with the same port.
OpenPortsOfFirst(res) ==
    [p \in {res[i][1] : i \in {j \in 1..Len(res) : ~res[j][2].isNone}} |->
        res[CHOOSE i \in 1..Len(res) :
                /\ res[i][1] = p
                /\ ~res[i][2].isNone
                /\ \A j \in 1..(i - 1) :
                      ~(res[j][1] = p /\ ~res[j][2].isNone)][2].text]

\* {port: info for port, info in results if info is not None}: the keys are
\* the ports of the pairs whose info is not None, and a later pair
\* overwrites an earlier one with the same port.
LastWith(res, p) ==
    CHOOSE i \in 1..Len(res) :
        /\ res[i][1] = p
        /\ ~res[i][2].isNone
        /\ \A j \in (i + 1)..Len(res) : ~(res[j][1] = p /\ ~res[j][2].isNone)

OpenPortsOf(res) ==
    [p \in {res[i][1] : i \in {j \in 1..Len(res) : ~res[j][2].isNone}} |->
        res[LastWith(res, p)][2].text]

\* ------------------------------------------------------------------- Init
Range(seq) == {seq[i] : i \in 1..Len(seq)}

\* All sequences over S of length at most n.
RECURSIVE SeqsUpTo(_, _)
SeqsUpTo(S, n) ==
    IF n = 0 THEN {<< >>}
    ELSE LET shorter == SeqsUpTo(S, n - 1)
         IN  shorter \cup {Append(s, x) : s \in shorter, x \in S}

\* The command-line token of a port number: the decimal digits of n.
PlainToken(n) == [range |-> FALSE, lo |-> n, hi |-> n]

\* The command-line token "a-b".
RangeToken(a, b) == [range |-> TRUE, lo |-> a, hi |-> b]

\* The namespace parse_args returns, with the list args.ports.
Parsed(list) == [ok |-> TRUE, ports |-> list, error |-> "none"]

\* No list comes back: the exception that ended the call.
Raised(exception) == [ok |-> FALSE, ports |-> << >>, error |-> exception]

\* The semaphore as the module creates it, and the state of the scan_port
\* invocations before any of them has run.
ScanInit ==
    /\ pc = [i \in Probes |-> "created"]
    /\ timer = [i \in Probes |-> 0]
    /\ semValue = MAX_CONCURRENT_SCANS
    /\ permit = [i \in Probes |-> 0]
    /\ released = [i \in Probes |-> 0]
    /\ attempts = [i \in Probes |-> 0]
    /\ conn = [i \in Probes |-> "none"]
    /\ arrived = [i \in Probes |-> << >>]
    /\ info = [i \in Probes |-> None]
    /\ status = [i \in Probes |-> "pending"]
    /\ slept = [i \in Probes |-> 0]
    /\ cancelled = [i \in Probes |-> FALSE]
    /\ log = EmptyBag
    /\ results = << >>
    /\ open_ports = EmptyDict
    /\ results2 = << >>
    /\ open_ports2 = EmptyDict

\* main has parsed its arguments and calls scan_ports, once, with a list of
\* at most MaxPorts ports.
Init ==
    /\ ports \in SeqsUpTo(PortUniverse, MaxPorts)
    /\ target \in [Range(ports) -> TargetKinds]
    /\ payloads = TextPayloads
    /\ tokens = [i \in Probes |-> PlainToken(ports[i])]
    /\ args = Parsed(ports)
    /\ pcM = "scanning"
    /\ nFirst = Len(ports)
    /\ pcS = "start"
    /\ pcS2 = "none"
    /\ ScanInit

\* ---------------------------------------------------------------- helpers
\* logging.warning / logging.error of scan_port: one entry for one port.
LogEntry(level, event, p) == [level |-> level, event |-> event, port |-> p]

Logged(level, event, p) == log (+) SetToBag({LogEntry(level, event, p)})

\* A semaphore that never makes its caller wait.
CanAcquireAlways(i) == TRUE

\* A semaphore of its own for each call of scan_ports (created inside
\* scan_ports): the caller waits only for permits held within its own call.
CanAcquirePerScan(i) ==
    Cardinality({j \in (IF i \in Probes1 THEN Probes1 ELSE Probes2) :
                    permit[j] > 0}) < MAX_CONCURRENT_SCANS

\* semaphore.acquire() returns without suspending the caller: the one
\* module-level semaphore, whichever call of scan_ports the caller is of.
CanAcquire(i) == semValue > 0

\* Leaving "async with semaphore": semaphore.release().
ReleasePermit(i) ==
    /\ semValue' = semValue + 1
    /\ permit' = [permit EXCEPT ![i] = @ - 1]
    /\ released' = [released EXCEPT ![i] = @ + 1]

\* An except clause that returns without giving the permit back (the permit
\* acquired by hand and released on the success path only).
HandlerKeepsPermit(i, level, event, connAfter) ==
    /\ log' = Logged(level, event, ports[i])
    /\ status' = [status EXCEPT ![i] = event]
    /\ info' = [info EXCEPT ![i] = None]
    /\ conn' = [conn EXCEPT ![i] = connAfter]
    /\ pc' = [pc EXCEPT ![i] = "done"]
    /\ UNCHANGED <<pcS, semValue, permit, released>>

\* An except clause that logs and raises the exception again: the permit is
\* given back, and gather (return_exceptions left False) passes the
\* exception on to scan_ports, which raises it.
HandlerReraises(i, level, event, connAfter) ==
    /\ log' = Logged(level, event, ports[i])
    /\ status' = [status EXCEPT ![i] = event]
    /\ info' = [info EXCEPT ![i] = None]
    /\ conn' = [conn EXCEPT ![i] = connAfter]
    /\ pc' = [pc EXCEPT ![i] = "done"]
    /\ pcS' = "raised"
    /\ ReleasePermit(i)

\* An except clause that lets a failed invocation try once more: it gives
\* the permit back and goes to queue for a permit again; the second
\* failure is final.
HandlerRetries(i, level, event, connAfter) ==
    /\ log' = Logged(level, event, ports[i])
    /\ status' = [status EXCEPT ![i] = IF attempts[i] < 2 THEN @ ELSE event]
    /\ info' = [info EXCEPT ![i] = None]
    /\ conn' = [conn EXCEPT ![i] = connAfter]
    /\ pc' = [pc EXCEPT ![i] = IF attempts[i] < 2 THEN "acquire" ELSE "done"]
    /\ pcS' = pcS
    /\ ReleasePermit(i)

\* An except clause of scan_port: log the outcome, return (target_port,
\* None), leave the "async with" block.  The exception ends here, so
\* scan_ports goes on waiting in gather.  The connection is left as it is:
\* no except clause closes the writer.
Handler(i, level, event, connAfter) ==
    /\ log' = Logged(level, event, ports[i])
    /\ status' = [status EXCEPT ![i] = event]
    /\ info' = [info EXCEPT ![i] = None]
    /\ conn' = [conn EXCEPT ![i] = connAfter]
    /\ pc' = [pc EXCEPT ![i] = "done"]
    /\ pcS' = pcS
    /\ ReleasePermit(i)

\* Waiting for the first awaitable to finish instead of for all of them.
GatherFirstCompleted == \E i \in Probes1 : pc[i] = "done"

\* A wait that needs at least one awaitable (asyncio.wait raises ValueError
\* for an empty set of tasks) and so never ends for an empty list.
GatherNeedsAwaitable ==
    Probes1 # {} /\ \A i \in Probes1 : pc[i] = "done"

\* asyncio.gather(*scan_tasks) has a result: every awaitable has finished.
GatherDone == \A i \in Probes1 : pc[i] = "done"

\* A timer that runs from the moment the coroutine is scheduled, the wait
\* for a permit included (wait_for wrapped around the whole of scan_port).
TimerRunsWhileQueued(i) == pc[i] \in {"acquire", "connecting"}

\* The wait_for timer of invocation i is running.
TimerRuns(i) == pc[i] = "connecting"

\* ---------------------------------------------------------------- actions
\* scan_ports up to its await: one scan_port coroutine per element of the
\* list, all handed to asyncio.gather, which schedules every one of them.
Launch ==
    /\ pcS = "start"
    /\ pcS' = "gather"
    /\ pc' = [i \in Probes |-> IF i \in Probes1 THEN "acquire" ELSE pc[i]]
    /\ UNCHANGED <<mainVars, envVars, secondVars, arrived, attempts,
                   cancelled, timer, semValue, permit, released, conn, info,
                   status, slept, log, results, open_ports>>

\* scan_port enters "async with semaphore" and starts
\* wait_for(open_connection(...), timeout=1): its one connection attempt,
\* whose timer (at 0 until now) runs from here on.
Acquire(i) ==
    /\ pc[i] = "acquire"
    /\ CanAcquire(i)
    /\ semValue' = semValue - 1
    /\ permit' = [permit EXCEPT ![i] = @ + 1]
    /\ attempts' = [attempts EXCEPT ![i] = @ + 1]
    /\ conn' = [conn EXCEPT ![i] = "connecting"]
    /\ pc' = [pc EXCEPT ![i] = "connecting"]
    /\ UNCHANGED <<mainVars, envVars, secondVars, arrived, cancelled, pcS,
                   timer, released, info, status, slept, log, results,
                   open_ports>>

\* The connection is established within the timeout: scan_port goes on to
\* fetch_service_banner, which suspends in reader.read(1024).
ConnectOk(i) ==
    /\ pc[i] = "connecting"
    /\ timer[i] < ConnectTimeout
    /\ target[ports[i]] \in Accepting
    /\ conn' = [conn EXCEPT ![i] = "open"]
    /\ pc' = [pc EXCEPT ![i] = "reading"]
    /\ UNCHANGED <<mainVars, envVars, secondVars, arrived, attempts,
                   cancelled, pcS, timer, semValue, permit, released, info,
                   status, slept, log, results, open_ports>>

\* except ConnectionRefusedError
ConnectRefused(i) ==
    /\ pc[i] = "connecting"
    /\ timer[i] < ConnectTimeout
    /\ target[ports[i]] = "refuse"
    /\ Handler(i, "WARNING", "Refused", "none")
    /\ UNCHANGED <<mainVars, envVars, secondVars, arrived, attempts,
                   cancelled, timer, slept, results, open_ports>>

\* except Exception, raised by the connection attempt
ConnectError(i) ==
    /\ pc[i] = "connecting"
    /\ timer[i] < ConnectTimeout
    /\ target[ports[i]] = "error"
    /\ Handler(i, "ERROR", "Error", "none")
    /\ UNCHANGED <<mainVars, envVars, secondVars, arrived, attempts,
                   cancelled, timer, slept, results, open_ports>>

\* One time unit passes.  A target that answers at all answers in less than
\* a time unit, so time only passes while every running connection attempt
\* is to a filtered port.
Tick ==
    /\ \E i \in Probes : TimerRuns(i) /\ timer[i] < ConnectTimeout
    /\ \A i \in Probes :
          (pc[i] = "connecting" /\ timer[i] < ConnectTimeout)
              => target[ports[i]] = "filtered"
    /\ timer' = [i \in Probes |->
                    IF TimerRuns(i) /\ timer[i] < ConnectTimeout
                    THEN timer[i] + 1 ELSE timer[i]]
    /\ UNCHANGED <<mainVars, envVars, secondVars, arrived, attempts,
                   cancelled, pcS, pc, semValue, permit, released, conn, info,
                   status, slept, log, results, open_ports>>

\* except asyncio.TimeoutError: wait_for cancelled the connection attempt.
ConnectTimedOut(i) ==
    /\ pc[i] = "connecting"
    /\ timer[i] >= ConnectTimeout
    /\ Handler(i, "WARNING", "Timeout", "none")
    /\ UNCHANGED <<mainVars, envVars, secondVars, arrived, attempts,
                   cancelled, timer, slept, results, open_ports>>

\* reader.read(1024) returns (bytes arrived, or the peer closed), and
\* fetch_service_banner decodes and strips them.  When decoding succeeds
\* scan_port calls writer.close() and suspends in writer.wait_closed();
\* when it raises, the except Exception clause of scan_port runs.
ReadBanner(i) ==
    /\ pc[i] = "reading"
    /\ \E payload \in PayloadsOf(target[ports[i]]) :
          LET bytes == Read(payload) IN
          /\ arrived' = [arrived EXCEPT ![i] = payload]
          /\ IF Decodable(bytes)
             THEN /\ info' = [info EXCEPT ![i] = Text(Banner(bytes))]
                  /\ conn' = [conn EXCEPT ![i] = "closing"]
                  /\ pc' = [pc EXCEPT ![i] = "closing"]
                  /\ UNCHANGED <<pcS, semValue, permit, released, status,
                                 log>>
             ELSE Handler(i, "ERROR", "Error", conn[i])
    /\ UNCHANGED <<mainVars, envVars, secondVars, attempts, cancelled, timer,
                   slept, results, open_ports>>

\* The task is cancelled while suspended in reader.read(1024):
\* fetch_service_banner catches CancelledError and returns None, and
\* scan_port goes on to writer.close() and writer.wait_closed().
CancelRead(i) ==
    /\ pc[i] = "reading"
    /\ cancelled' = [cancelled EXCEPT ![i] = TRUE]
    /\ info' = [info EXCEPT ![i] = None]
    /\ conn' = [conn EXCEPT ![i] = "closing"]
    /\ pc' = [pc EXCEPT ![i] = "closing"]
    /\ UNCHANGED <<mainVars, envVars, secondVars, arrived, attempts, pcS,
                   timer, semValue, permit, released, status, slept, log,
                   results, open_ports>>

\* writer.wait_closed() returns; scan_port suspends in asyncio.sleep(0.1),
\* still inside the "async with" block.
WaitClosed(i) ==
    /\ pc[i] = "closing"
    /\ conn' = [conn EXCEPT ![i] = "closed"]
    /\ slept' = [slept EXCEPT ![i] = @ + 1]
    /\ pc' = [pc EXCEPT ![i] = "sleeping"]
    /\ UNCHANGED <<mainVars, envVars, secondVars, arrived, attempts,
                   cancelled, pcS, timer, semValue, permit, released, info,
                   status, log, results, open_ports>>

\* The sleep is over: return target_port, service_info, leaving the
\* "async with" block.
SleepDone(i) ==
    /\ pc[i] = "sleeping"
    /\ status' = [status EXCEPT ![i] = "Open"]
    /\ pc' = [pc EXCEPT ![i] = "done"]
    /\ ReleasePermit(i)
    /\ UNCHANGED <<mainVars, envVars, secondVars, arrived, attempts,
                   cancelled, pcS, timer, conn, info, slept, log, results,
                   open_ports>>

\* gather has every result, in the order of the port list; scan_ports
\* builds the dict and returns it.
Return ==
    /\ pcS = "gather"
    /\ GatherDone
    /\ results' = [i \in Probes1 |-> <<ports[i], info[i]>>]
    /\ open_ports' = OpenPortsOf(results')
    /\ pcS' = "returned"
    /\ UNCHANGED <<mainVars, envVars, secondVars, arrived, attempts,
                   cancelled, pc, timer, semValue, permit, released, conn,
                   info, status, slept, log>>

Next ==
    \/ Launch
    \/ \E i \in Probes : Acquire(i)
    \/ \E i \in Probes : ConnectOk(i)
    \/ \E i \in Probes : ConnectRefused(i)
    \/ \E i \in Probes : ConnectError(i)
    \/ Tick
    \/ \E i \in Probes : ConnectTimedOut(i)
    \/ \E i \in Probes : ReadBanner(i)
    \/ \E i \in Probes : CancelRead(i)
    \/ \E i \in Probes : WaitClosed(i)
    \/ \E i \in Probes : SleepDone(i)
    \/ Return

Spec == Init /\ [][Next]_vars

\* The scheduler runs every coroutine that can run, and the environment
\* delivers every event it has for a waiting coroutine (an answer to a
\* connection attempt, the passing of time, the bytes of a talking service,
\* the end of a teardown, the end of a sleep).  Nothing obliges anyone to
\* cancel a task.
Fairness ==
    /\ WF_vars(Launch)
    /\ WF_vars(Tick)
    /\ WF_vars(Return)
    /\ \A i \in 1..MaxPorts :
          /\ WF_vars(i \in Probes /\ Acquire(i))
          /\ WF_vars(i \in Probes /\ ConnectOk(i))
          /\ WF_vars(i \in Probes /\ ConnectRefused(i))
          /\ WF_vars(i \in Probes /\ ConnectError(i))
          /\ WF_vars(i \in Probes /\ ConnectTimedOut(i))
          /\ WF_vars(i \in Probes /\ ReadBanner(i))
          /\ WF_vars(i \in Probes /\ WaitClosed(i))
          /\ WF_vars(i \in Probes /\ SleepDone(i))

FairSpec == Spec /\ Fairness

\* ----------------------------------------------------------------- claims
Finished(i) == pc[i] = "done"

Failures == {"Timeout", "Refused", "Error"}

RECURSIVE SumOver(_, _)
SumOver(f, S) ==
    IF S = {} THEN 0
    ELSE LET x == CHOOSE y \in S : TRUE
         IN  f[x] + SumOver(f, S \ {x})

\* The invocations that hold a permit and have a connection attempt in
\* flight.
InFlight == {i \in Probes : permit[i] > 0 /\ conn[i] = "connecting"}

\* C1: at no point of a scan do more invocations than the capacity of the
\* semaphore hold a permit with a connection attempt in flight, whatever
\* the length of the port list.
C1_ConcurrencyBound == Cardinality(InFlight) <= MAX_CONCURRENT_SCANS

\* The list is longer than the capacity, the capacity is used up and an
\* invocation is queued for a permit.
C1_Witness ==
    /\ Len(ports) > MAX_CONCURRENT_SCANS
    /\ Cardinality(InFlight) = MAX_CONCURRENT_SCANS
    /\ \E i \in Probes : pc[i] = "acquire"

\* C2: the mapping exists only once every launched invocation has finished,
\* and it is written in one step only: the step in which scan_ports, having
\* gathered every result, returns.
C2_JoinAllBarrier ==
    /\ [](pcS = "returned" => \A i \in Probes : Finished(i))
    /\ [][(open_ports' # open_ports \/ results' # results)
            => /\ pcS = "gather" /\ pcS' = "returned"
               /\ \A i \in Probes : Finished(i)]_vars
    /\ [][pcS = "returned" => open_ports' = open_ports]_vars

\* A scan of several ports has returned a mapping that is not empty.
C2_Witness ==
    /\ pcS = "returned"
    /\ Len(ports) >= 2
    /\ open_ports # EmptyDict

\* C3: the permits held and the permits available add up to the capacity;
\* an invocation holds at most one permit, has released none while it runs
\* and exactly one once it has finished, on whichever path; when scan_ports
\* has returned every permit is available.
C3_PermitConservation ==
    /\ semValue + SumOver(permit, Probes) = MAX_CONCURRENT_SCANS
    /\ \A i \in Probes :
          /\ permit[i] \in {0, 1}
          /\ permit[i] = 1 <=>
                pc[i] \in {"connecting", "reading", "closing", "sleeping"}
          /\ released[i] = IF Finished(i) THEN 1 ELSE 0
    /\ pcS = "returned" => semValue = MAX_CONCURRENT_SCANS

\* scan_ports has returned after a scan in which one invocation failed
\* inside the banner read and another timed out.
C3_Witness ==
    /\ pcS = "returned"
    /\ \E i \in Probes : status[i] = "Error" /\ conn[i] = "open"
    /\ \E i \in Probes : status[i] = "Timeout"

\* C4: once an invocation whose connection was established has released
\* its permit, the connection is closed and its teardown is complete.
C4_TeardownBeforeRelease ==
    \A i \in Probes :
        (released[i] > 0 /\ conn[i] # "none") => conn[i] = "closed"

\* C5: the mapping scan_ports returns has no port whose invocation ended in
\* Timeout, Refused or Error, it is empty when every invocation timed out
\* or was refused, and its keys are ports of the list.
C5_NonOpenExcluded ==
    pcS = "returned" =>
        /\ \A i \in Probes :
              status[i] \in Failures => ports[i] \notin DOMAIN open_ports
        /\ (\A i \in Probes : status[i] \in {"Timeout", "Refused"})
              => open_ports = EmptyDict
        /\ DOMAIN open_ports \subseteq Range(ports)

\* scan_ports has returned a mapping with an open port, after a scan in
\* which another port failed once its connection was established.
C5_Witness ==
    /\ pcS = "returned"
    /\ \E i \in Probes : status[i] = "Error" /\ conn[i] = "open"
    /\ open_ports # EmptyDict

\* C6: a port that accepts the connection and then stays silent (sends
\* nothing, does not close) is eventually reported: its invocation finishes
\* with status Open and scan_ports returns a mapping that has the port.
C6_SilentOpenReported ==
    \A i \in 1..MaxPorts :
        (i \in Probes /\ pc[i] = "reading" /\ target[ports[i]] = "silent")
            ~> (/\ i \in Probes
                /\ pcS = "returned"
                /\ status[i] = "Open"
                /\ ports[i] \in DOMAIN open_ports)

\* C7: when the banner read of an established connection is cancelled, the
\* invocation still ends with status Open and the port is in the mapping
\* scan_ports returns.
C7_CancelledReadKeepsOpen ==
    pcS = "returned" =>
        \A i \in Probes :
            cancelled[i] =>
                status[i] = "Open" /\ ports[i] \in DOMAIN open_ports

\* C8: every invocation, whatever its outcome, runs the 0.1 delay exactly
\* once before it finishes, and holds no permit while it is in the delay.
C8_PostProbeThrottle ==
    \A i \in Probes :
        /\ Finished(i) => slept[i] = 1
        /\ pc[i] = "sleeping" => permit[i] = 0

\* An invocation fails in this step.
FailsNow(i) == status[i] = "pending" /\ status'[i] \in Failures

\* C9: a Timeout, Refused or Error outcome of one invocation, a failure
\* inside the banner read included, is an ordinary result: the step in which
\* it happens leaves scan_ports gathering and every other invocation where
\* it was, and gives the permit back, so that a queued invocation can go on;
\* the failed invocation counts as finished; and the mapping scan_ports
\* returns has every port for which an invocation returned a banner, however
\* many others failed; and once every invocation has finished, failed or
\* not, scan_ports can return.
C9_FailureIsolation ==
    /\ [][\A i \in Probes :
            FailsNow(i) =>
                /\ pcS' = pcS /\ pcS = "gather"
                /\ semValue' > 0
                /\ \A j \in Probes \ {i} :
                      /\ pc'[j] = pc[j]
                      /\ info'[j] = info[j]
                      /\ status'[j] = status[j]]_vars
    /\ [](\A i \in Probes :
            status[i] \in Failures => Finished(i) /\ permit[i] = 0)
    /\ [](pcS = "returned" =>
            \A j \in Probes :
                (status[j] = "Open" /\ ~info[j].isNone)
                    => /\ ports[j] \in DOMAIN open_ports
                       /\ \E k \in Probes :
                             /\ ports[k] = ports[j]
                             /\ open_ports[ports[j]] = info[k].text)
    /\ []((pcS = "gather" /\ \A i \in Probes : Finished(i))
            => ENABLED Return)

\* scan_ports has returned a mapping with an open port after a scan in which
\* another invocation failed while a third one was queued for a permit.
C9_Witness ==
    /\ pcS = "returned"
    /\ Len(ports) > MAX_CONCURRENT_SCANS
    /\ \E i \in Probes : status[i] \in Failures
    /\ \E j \in Probes : status[j] = "Open" /\ ports[j] \in DOMAIN open_ports

\* The number of log entries scan_port wrote for port p.
LogCount(event, p) ==
    CopiesIn(LogEntry(IF event = "Error" THEN "ERROR" ELSE "WARNING",
                      event, p), log)

\* C10: when scan_ports has returned, every invocation whose result is not
\* in the mapping has written exactly one log entry, a warning for Timeout
\* or Refused and an error for any other failure, and the invocations whose
\* result is in the mapping have written none.
C10_NoFailureSilentlyDropped ==
    pcS = "returned" =>
        /\ \A e \in BagToSet(log) :
              /\ e.event \in Failures
              /\ e.level = IF e.event = "Error" THEN "ERROR" ELSE "WARNING"
        /\ \A p \in PortUniverse :
              /\ \A event \in Failures :
                    LogCount(event, p) =
                        Cardinality({i \in Probes :
                            ports[i] = p /\ status[i] = event})
              /\ LogCount("Timeout", p) + LogCount("Refused", p)
                        + LogCount("Error", p) =
                    Cardinality({i \in Probes :
                        ports[i] = p /\ info[i].isNone})

\* C11: a port list longer than the capacity only queues: under fair
\* scheduling every launched invocation, queued or not, eventually finishes
\* (so it acquired a permit on the way), and scan_ports eventually returns.
\* Every connection attempt of the model resolves: it is answered, refused,
\* fails, or times out after ConnectTimeout.
C11_QueuingNotRejection ==
    /\ \A i \in 1..MaxPorts :
          (i \in Probes /\ pc[i] = "acquire")
              ~> (i \in Probes /\ permit[i] = 1)
    /\ \A i \in 1..MaxPorts :
          (i \in Probes /\ pc[i] = "acquire")
              ~> (i \in Probes /\ Finished(i))
    /\ (pcS = "start") ~> (pcS = "returned")

\* C12: scan_ports called with an empty list launches no invocation, takes
\* no permit, writes no log entry, raises nothing, can return at once, and
\* returns the empty mapping.
C12_EmptyInput ==
    Len(ports) = 0 =>
        /\ DOMAIN pc = {}
        /\ semValue = MAX_CONCURRENT_SCANS
        /\ log = EmptyBag
        /\ pcS \in {"start", "gather", "returned"}
        /\ pcS = "gather" => ENABLED Return
        /\ pcS = "returned" => results = << >> /\ open_ports = EmptyDict

\* scan_ports has returned from a scan of the empty list.
C12_Witness == Len(ports) = 0 /\ pcS = "returned"

\* The ports the target reports as open: those of the invocations whose
\* port accepts and sends decodable bytes (or closes at once), and whose
\* banner read nobody cancelled.  It is a function of what the scan is given
\* (the list, the target's behaviour, the cancellations), not of the order
\* in which the invocations ran.
ExpectedOpen ==
    {ports[i] : i \in {j \in Probes :
                         target[ports[j]] = "text" /\ ~cancelled[j]}}

\* C13: for a target whose behaviour on each port is fixed, the set of ports
\* in the mapping scan_ports returns is the same whatever the interleaving
\* of the invocations and the order in which permits were granted: it is
\* ExpectedOpen.
C13_Determinism == pcS = "returned" => DOMAIN open_ports = ExpectedOpen

\* scan_ports has returned from a scan of more ports than the capacity, so
\* that permits were granted in some order, with one port in the mapping
\* and another one left out.
C13_Witness ==
    /\ pcS = "returned"
    /\ Len(ports) > MAX_CONCURRENT_SCANS
    /\ open_ports # EmptyDict
    /\ Range(ports) \ DOMAIN open_ports # {}

\* ------------------------------------------------- the banner of one port
\* The end-to-end scan of ports 22 and 9999 of one host.
BannerPorts == <<22, 9999>>

\* "ready\n"
ReadyLine == <<114, 101, 97, 100, 121, 10>>

\* "ready"
ReadyText == <<114, 101, 97, 100, 121>>

\* A service that sends more than one read takes: a space, letters "a" up
\* to a line feed that is the last byte within the read limit, then "b".
LongPayload ==
    [k \in 1..(ReadLimit + 2) |->
        IF k = 1 THEN 32
        ELSE IF k = ReadLimit THEN 10
        ELSE IF k > ReadLimit THEN 98
        ELSE 97]

BannerPayloads == {<< >>, ReadyLine, LongPayload}

\* main calls scan_ports with ports 22 and 9999; whatever listens there may
\* send nothing, "ready\n", or more than one read takes.
BannerInit ==
    /\ ports = BannerPorts
    /\ target \in [Range(ports) -> TargetKinds]
    /\ payloads = BannerPayloads
    /\ tokens = [i \in Probes |-> PlainToken(ports[i])]
    /\ args = Parsed(ports)
    /\ pcM = "scanning"
    /\ nFirst = Len(ports)
    /\ pcS = "start"
    /\ pcS2 = "none"
    /\ ScanInit

BannerSpec == BannerInit /\ [][Next]_vars

\* text is what is left of the first n bytes of sent once the whitespace at
\* both ends is removed.
StrippedPrefix(text, sent, n) ==
    \E a \in 0..n :
        /\ \A k \in 1..a : sent[k] \in Whitespace
        /\ \E b \in a..n :
              /\ \A k \in (b + 1)..n : sent[k] \in Whitespace
              /\ a < b => (sent[a + 1] \notin Whitespace
                           /\ sent[b] \notin Whitespace)
              /\ Len(text) = b - a
              /\ \A k \in 1..(b - a) : text[k] = sent[a + k]

\* C14: once scan_ports has returned, every port (here each occurs once)
\* whose probe read a banner and came back open is in the mapping with the
\* text of the first min(1024, all) bytes its service had sent, less the
\* whitespace at both ends, whatever was sent beyond the 1024th byte; and a
\* listener that replied "ready\n" on 9999 with port 22 refusing gives
\* exactly {9999: "ready"}.
C14_BannerContent ==
    pcS = "returned" =>
        /\ \A i \in Probes :
              (status[i] = "Open" /\ ~cancelled[i]) =>
                  /\ ports[i] \in DOMAIN open_ports
                  /\ Len(open_ports[ports[i]]) <= ReadLimit
                  /\ StrippedPrefix(open_ports[ports[i]], arrived[i],
                        IF Len(arrived[i]) <= ReadLimit
                        THEN Len(arrived[i]) ELSE ReadLimit)
        /\ (target[22] = "refuse" /\ status[2] = "Open" /\ ~cancelled[2]
            /\ arrived[2] = ReadyLine)
              => open_ports = (9999 :> ReadyText)

C14_Witness ==
    /\ pcS = "returned"
    /\ target[22] = "refuse"
    /\ arrived[2] = ReadyLine
    /\ open_ports = (9999 :> ReadyText)

\* A service that sent more than one read takes is reported with what the
\* one read took.
C14_WitnessLong ==
    /\ pcS = "returned"
    /\ arrived[2] = LongPayload
    /\ 9999 \in DOMAIN open_ports
    /\ Len(open_ports[9999]) = ReadLimit - 2

\* ------------------------------------------------ parsing the port tokens
\* The tokens a command line is made of: ports 22 and 80, and every "a-b"
\* with a and b in 100..102 (start above end included).
TokenUniverse ==
    {PlainToken(n) : n \in {22, 80}}
        \cup {RangeToken(a, b) : a \in 100..102, b \in 100..102}

\* int(token), the type=int of the ports argument, raises ValueError on
\* anything but the digits of one integer.
IntOk(token) == ~token.range

\* parse_args() with ports declared type=int, nargs='+': a list of ints
\* when there is at least one token and int() takes every token; otherwise
\* argparse reports the error and exits (SystemExit, status 2).
ParseArgs(toks) ==
    IF Len(toks) >= 1 /\ \A k \in 1..Len(toks) : IntOk(toks[k])
    THEN Parsed([k \in 1..Len(toks) |-> toks[k].lo])
    ELSE Raised("SystemExit")

\* Evaluating the call parse_ports(tokens): the module defines no
\* parse_ports, so looking the name up raises NameError.
ParsePorts(toks) == Raised("NameError")

\* main: args = parse_arguments()
ParseArguments ==
    /\ pcM = "parse"
    /\ args' = ParseArgs(tokens)
    /\ pcM' = IF args'.ok THEN "scan" ELSE "exit"
    /\ UNCHANGED <<tokens, envVars, secondVars, pcS, pc, timer, semValue,
                   permit, released, attempts, conn, arrived, info, status,
                   slept, cancelled, log, results, open_ports>>

\* test_port_range_parsing: parse_ports(tokens)
CallParsePorts ==
    /\ pcM = "parse"
    /\ args' = ParsePorts(tokens)
    /\ pcM' = "exit"
    /\ UNCHANGED <<tokens, envVars, secondVars, pcS, pc, timer, semValue,
                   permit, released, attempts, conn, arrived, info, status,
                   slept, cancelled, log, results, open_ports>>

\* main: asyncio.run(scan_ports(target_host, args.ports)); the target is
\* whatever it is on the ports of the list.
MainCall ==
    /\ pcM = "scan"
    /\ pcM' = "scanning"
    /\ ports' = args.ports
    /\ nFirst' = Len(ports')
    /\ target' \in [Range(ports') -> TargetKinds]
    /\ pcS' = "start"
    /\ pc' = [i \in 1..Len(ports') |-> "created"]
    /\ timer' = [i \in 1..Len(ports') |-> 0]
    /\ permit' = [i \in 1..Len(ports') |-> 0]
    /\ released' = [i \in 1..Len(ports') |-> 0]
    /\ attempts' = [i \in 1..Len(ports') |-> 0]
    /\ conn' = [i \in 1..Len(ports') |-> "none"]
    /\ arrived' = [i \in 1..Len(ports') |-> << >>]
    /\ info' = [i \in 1..Len(ports') |-> None]
    /\ status' = [i \in 1..Len(ports') |-> "pending"]
    /\ slept' = [i \in 1..Len(ports') |-> 0]
    /\ cancelled' = [i \in 1..Len(ports') |-> FALSE]
    /\ UNCHANGED <<tokens, args, payloads, secondVars, semValue, log, results,
                   open_ports>>

\* The program is started with at most MaxTokens port tokens; nothing has
\* been parsed and scan_ports has not been called.
ParseInit ==
    /\ tokens \in SeqsUpTo(TokenUniverse, MaxTokens)
    /\ args = Raised("none")
    /\ pcM = "parse"
    /\ ports = << >>
    /\ nFirst = 0
    /\ target = [p \in {} |-> "refuse"]
    /\ payloads = TextPayloads
    /\ pcS = "idle"
    /\ pcS2 = "none"
    /\ ScanInit

ParseNext == ParseArguments \/ CallParsePorts \/ MainCall

ParseSpec == ParseInit /\ [][ParseNext]_vars

\* The integers a..b in order (none when a > b).
Interval(a, b) == [k \in 1..(b - a + 1) |-> a + k - 1]

\* The ports a token list stands for: each port, and each range a-b
\* replaced by a..b.
RECURSIVE ExpandTokens(_)
ExpandTokens(toks) ==
    IF toks = << >> THEN << >>
    ELSE Interval(Head(toks).lo, Head(toks).hi) \o ExpandTokens(Tail(toks))

\* No range of the list starts above its end.
ValidRanges(toks) == \A k \in 1..Len(toks) : toks[k].lo <= toks[k].hi

\* C15: once a non-empty token list has been parsed, the outcome is the
\* listed ports in order with every a-b replaced by a..b when no range
\* starts above its end, and a ValueError otherwise; and scan_ports is
\* only ever called after a list without such a range was parsed.
C15_RangeExpansion ==
    /\ (tokens # << >> /\ pcM # "parse") =>
          IF ValidRanges(tokens)
          THEN args = Parsed(ExpandTokens(tokens))
          ELSE args = Raised("ValueError")
    /\ pcS # "idle" => ValidRanges(tokens)

\* C16: once scan_ports has launched its invocations there is one for each
\* element of the port list and none is left unstarted; an invocation makes
\* at most one connection attempt, and exactly one once it has finished; it
\* has an outcome exactly when it has finished, and a step never changes an
\* outcome it already has; and gather returns as many pairs as the list has
\* elements, the i-th for the i-th port.
C16_OneAttemptPerElement ==
    /\ [](pcS \in {"gather", "returned"} =>
            /\ DOMAIN pc = 1..Len(ports)
            /\ \A i \in Probes : pc[i] # "created")
    /\ [](\A i \in Probes :
            /\ attempts[i] <= 1
            /\ Finished(i) => attempts[i] = 1
            /\ Finished(i) <=> status[i] # "pending")
    /\ [][\A i \in Probes :
            /\ status[i] # "pending" => status'[i] = status[i]
            /\ attempts'[i] >= attempts[i]]_vars
    /\ [](pcS = "returned" =>
            /\ Len(results) = Len(ports)
            /\ \A i \in Probes : results[i][1] = ports[i])

\* scan_ports has returned after a scan of a list longer than the capacity
\* with a repeated port, in which an invocation failed and another found
\* its port open.
C16_Witness ==
    /\ pcS = "returned"
    /\ Len(ports) > MAX_CONCURRENT_SCANS
    /\ Cardinality(Range(ports)) < Len(ports)
    /\ \E i \in Probes : status[i] \in Failures /\ attempts[i] = 1
    /\ \E i \in Probes : status[i] = "Open"
    /\ Len(results) = Len(ports)

\* C17: the wait_for timer of an invocation stands at 0 until the
\* invocation has its permit and has started its connection attempt, so
\* neither the time it queued nor the time other invocations took to time
\* out counts against it: an invocation comes back Timeout only when its
\* own port did not answer within the timeout, and an invocation whose
\* port answers never does, however many time units passed while it
\* queued.
C17_IndependentTimeout ==
    /\ [](\A i \in Probes :
            /\ pc[i] \in {"created", "acquire"} => timer[i] = 0
            /\ status[i] = "Timeout" =>
                  (target[ports[i]] = "filtered" /\ timer[i] = ConnectTimeout)
            /\ (pc[i] = "connecting" /\ target[ports[i]] # "filtered")
                  => timer[i] < ConnectTimeout)
    /\ [][\A i \in Probes :
            timer'[i] # timer[i] =>
                (pc[i] = "connecting" /\ permit[i] = 1)]_vars

\* An invocation whose port answers has come back with another outcome than
\* Timeout after it had queued while as many invocations as the capacity
\* timed out.
C17_Witness ==
    /\ Len(ports) > MAX_CONCURRENT_SCANS
    /\ \A i \in 1..MAX_CONCURRENT_SCANS : status[i] = "Timeout"
    /\ \E j \in Probes :
          /\ target[ports[j]] # "filtered"
          /\ Finished(j)
          /\ status[j] \in {"Open", "Refused", "Error"}

\* The invocations whose connection is established and not yet closed.
OpenConnections == {i \in Probes : conn[i] \in {"open", "closing"}}

\* C18: at no time are more connections established and not yet closed
\* than the semaphore has permits, and an invocation that has given its
\* permit back has no connection still open, also when
\* fetch_service_banner raised.
C18_OpenConnectionBound ==
    /\ Cardinality(OpenConnections) <= MAX_CONCURRENT_SCANS
    /\ \A i \in Probes : (released[i] > 0) => i \notin OpenConnections

\* The invocations for port p that came back with a banner.
WithBanner(p) == {i \in Probes : ports[i] = p /\ ~info[i].isNone}

\* C19: every occurrence of a port in the list has its own invocation with
\* its own connection attempt; and in the mapping scan_ports returns, a
\* port of the list is a key exactly when one of its invocations came back
\* with a banner, its value is the banner of the last such invocation in
\* list order, and there is no other key.  (This holds in every behaviour:
\* for every order in which the invocations finish.)
C19_DuplicatePorts ==
    pcS = "returned" =>
        /\ \A i \in Probes : attempts[i] = 1 /\ results[i][1] = ports[i]
        /\ DOMAIN open_ports \subseteq Range(ports)
        /\ \A p \in Range(ports) :
              /\ p \in DOMAIN open_ports <=> WithBanner(p) # {}
              /\ WithBanner(p) # {} =>
                    \E i \in WithBanner(p) :
                        /\ \A j \in WithBanner(p) : j <= i
                        /\ open_ports[p] = info[i].text

\* scan_ports has returned after a scan in which two occurrences of one
\* port came back with different banners, and a later occurrence of the
\* port came back without one.
C19_Witness ==
    /\ pcS = "returned"
    /\ \E i, j, k \in Probes :
          /\ i < j /\ j < k
          /\ ports[i] = ports[j] /\ ports[j] = ports[k]
          /\ ~info[i].isNone /\ ~info[j].isNone /\ info[k].isNone
          /\ info[i].text # info[j].text
          /\ open_ports[ports[i]] = info[j].text

\* The last occurrence of a repeated port has come back with a banner while
\* an earlier occurrence, which will come back with another one, is still
\* reading.
C19_WitnessLastFinishesFirst ==
    /\ pcS = "gather"
    /\ \E i, j \in Probes :
          /\ i < j
          /\ ports[i] = ports[j]
          /\ pc[i] = "reading"
          /\ Finished(j) /\ ~info[j].isNone /\ info[j].text # << >>

\* ------------------------------------- two calls of scan_ports at a time
\* The second call of scan_ports up to its await (as Launch).
Launch2 ==
    /\ pcS2 = "start"
    /\ pcS2' = "gather"
    /\ pc' = [i \in Probes |-> IF i \in Probes2 THEN "acquire" ELSE pc[i]]
    /\ UNCHANGED <<mainVars, envVars, results2, open_ports2, pcS, timer,
                   semValue, permit, released, attempts, conn, arrived, info,
                   status, slept, cancelled, log, results, open_ports>>

\* The second call has every result of its own gather, builds its dict and
\* returns it (as Return).
Return2 ==
    /\ pcS2 = "gather"
    /\ \A i \in Probes2 : pc[i] = "done"
    /\ results2' = [k \in 1..(Len(ports) - nFirst) |->
                       <<ports[nFirst + k], info[nFirst + k]>>]
    /\ open_ports2' = OpenPortsOf(results2')
    /\ pcS2' = "returned"
    /\ UNCHANGED <<mainVars, envVars, pcS, pc, timer, semValue, permit,
                   released, attempts, conn, arrived, info, status, slept,
                   cancelled, log, results, open_ports>>

\* Two calls of scan_ports are running in one event loop of one process
\* (asyncio.gather(scan_ports(h, l1), scan_ports(h, l2))), each with a
\* non-empty list of occurrences of one port; the module, and with it the
\* semaphore, was loaded once.
TwoScanInit ==
    /\ ports \in SeqsUpTo(PortUniverse, MaxPorts)
    /\ nFirst \in 1..(Len(ports) - 1)
    /\ \A i, j \in Probes1 : ports[i] = ports[j]
    /\ \A i, j \in Probes2 : ports[i] = ports[j]
    /\ target \in [Range(ports) -> TargetKinds]
    /\ payloads = TextPayloads
    /\ tokens = [i \in Probes |-> PlainToken(ports[i])]
    /\ args = Parsed(ports)
    /\ pcM = "scanning"
    /\ pcS = "start"
    /\ pcS2 = "start"
    /\ ScanInit

TwoScanNext == Next \/ Launch2 \/ Return2

TwoScanSpec == TwoScanInit /\ [][TwoScanNext]_vars

\* The invocations that hold a permit.
Holders == {i \in Probes : permit[i] > 0}

\* C20: with two calls of scan_ports running at a time, the invocations of
\* both calls together never hold more permits than the capacity, the
\* permits held and the permits available always add up to the capacity,
\* and an invocation that wants a permit cannot go on while none is
\* available, whichever call holds them.
C20_ProcessWideLimiter ==
    /\ Cardinality(Holders) <= MAX_CONCURRENT_SCANS
    /\ semValue >= 0
    /\ semValue + SumOver(permit, Probes) = MAX_CONCURRENT_SCANS
    /\ \A i \in Probes :
          (pc[i] = "acquire" /\ semValue = 0) => ~ENABLED Acquire(i)

\* An invocation of the second call is queued for a permit while every
\* permit is held by an invocation of the first call.
C20_Witness ==
    /\ pcS = "gather" /\ pcS2 = "gather"
    /\ semValue = 0
    /\ Cardinality(Holders) = MAX_CONCURRENT_SCANS
    /\ Holders \subseteq Probes1
    /\ \E j \in Probes2 : pc[j] = "acquire" /\ ~ENABLED Acquire(j)

====
